---- MODULE Spec2Model ----
(***************************************************************************)
(* Model of examples/splitters/plot_multiview_axis_aligned_splitter.py:    *)
(* a straight-line script that builds dummy arrays, constructs a           *)
(* MultiViewSplitterTester, calls init_test and sample_projection_matrix_py*)
(* on it and renders the sampled matrix as a heatmap.                      *)
(*                                                                         *)
(* Conventions.                                                            *)
(*  - A numpy 1-d array is a sequence; a 2-d array is a sequence of rows.  *)
(*    The 0-based column j of the script is position j + 1 of a row.       *)
(*  - The x position of a vertical line is kept in half units: the script's*)
(*    "iend - 0.5" is 2 * iend - 1 here (2.5 -> 5, 4.5 -> 9, 8.5 -> 17).   *)
(*  - A Python exception ends the script: pc = "error", with no way out,   *)
(*    since the script has no try/except.                                  *)
(*  - The splitter class lives in sktree.tree._oblique_splitter, which is  *)
(*    outside the script; its three operations are modelled from the       *)
(*    interface description (section 6 of the specification).              *)
(***************************************************************************)
EXTENDS Integers, Sequences, FiniteSets

VARIABLES
    pc,                 \* position of the script
    X,                  \* feature matrix (line 48)
    y,                  \* label matrix (line 49)
    sample_weight,      \* sample weights (line 50)
    splitter,           \* the MultiViewSplitterTester object (line 63)
    calls,              \* methods called on the splitter so far, in order
    projection_matrix,  \* result of sample_projection_matrix_py (line 85)
    cmap,               \* colours of the ListedColormap (line 88)
    vlines,             \* ax.axvline calls so far, in order (lines 96-98)
    loop_i,             \* position of the for loop in feature_set_ends[1:]
    axes,               \* ticks and tick labels set on ax (lines 100-105)
    colorbar,           \* ticks and tick labels of the colour bar (112-114)
    executed            \* the steps executed so far, in order

vars == <<pc, X, y, sample_weight, splitter, calls, projection_matrix, cmap,
          vlines, loop_i, axes, colorbar, executed>>

None == "None"

----------------------------------------------------------------------------
(* numpy and Python helpers, computed as the library computes them *)

Last(s) == s[Len(s)]

Min(a, b) == IF a < b THEN a ELSE b

\* np.arange(n): 0, 1, ..., n - 1
Arange(n) == [i \in 1..n |-> i - 1]

\* np.repeat(a, k): every element k times in a row
Repeat(a, k) == [i \in 1..(Len(a) * k) |-> a[((i - 1) \div k) + 1]]

\* a.reshape(rows, -1) is defined when rows divides the size
CanReshapeRows(a, rows) == rows > 0 /\ Len(a) % rows = 0

\* a.reshape(-1, rows): the two arguments exchanged
ReshapeCols(a, rows) ==
    LET n == Len(a) \div rows
    IN  [r \in 1..n |-> [c \in 1..rows |-> a[(r - 1) * rows + c]]]

\* a.reshape(rows, -1): row-major, the column count inferred
ReshapeRows(a, rows) ==
    LET cols == Len(a) \div rows
    IN  [r \in 1..rows |-> [c \in 1..cols |-> a[(r - 1) * cols + c]]]

\* a.reshape(-1, 1): one column
ReshapeColumn(a) == [r \in 1..Len(a) |-> <<a[r]>>]

\* np.ones(n)
Ones(n) == [i \in 1..n |-> 1]

\* Python's l[:n] for n >= 0
SliceTo(l, n) == SubSeq(l, 1, Min(n, Len(l)))

\* Python's l[1:]
SliceFrom1(l) == SubSeq(l, 2, Len(l))

\* (rows, columns) of a 2-d array
Shape(m) == <<Len(m), IF Len(m) = 0 THEN 0 ELSE Len(m[1])>>

----------------------------------------------------------------------------
(* the script's hyperparameters, lines 33-45 *)

max_features == 5
min_samples_leaf == 1
min_weight_leaf == 0
random_state_seed == 10
n_samples == 5

feature_set_ends_sizes == <<3, 2, 4>>
feature_set_ends == <<3, 5, 9>>

n_feature_sets == Len(feature_set_ends)

feature_combinations == 1
monotonic_cst == None
missing_value_feature_mask == None

\* line 48: np.arange(feature_set_ends[-1]) repeated 5 times, before reshape
XFlatNoRepeat == Arange(Last(feature_set_ends))
XFlatFirstEnd == Repeat(Arange(feature_set_ends[1]), n_samples)
XFlat == Repeat(Arange(Last(feature_set_ends)), n_samples)

\* line 49: the labels before reshape(-1, 1)
YFlat == <<0, 0, 0, 1, 1>>

----------------------------------------------------------------------------
(* the splitter, modelled from its interface description *)

\* the constructor keeps its arguments; nothing is prepared for sampling yet
MultiViewSplitterTester(crit, maxf, msl, mwl, rs, mono, fcomb, ends, nsets) ==
    [criterion |-> crit, max_features |-> maxf, min_samples_leaf |-> msl,
     min_weight_leaf |-> mwl, random_state |-> rs, monotonic_cst |-> mono,
     feature_combinations |-> fcomb, feature_set_ends |-> ends,
     n_feature_sets |-> nsets, initialized |-> FALSE,
     n_samples |-> 0, n_features |-> 0]

\* init_test(X, y, sample_weight, mask): prepares the sampling state from the
\* dataset
init_test(s, Xa, ya, sw, mask) ==
    [s EXCEPT !.initialized = TRUE,
              !.n_samples = Shape(Xa)[1],
              !.n_features = Shape(Xa)[2]]

\* 0-based columns of feature set k (k in 1..n_feature_sets)
FeatureSetColumns(ends, k) ==
    {c \in 0..(Last(ends) - 1) :
        /\ c < ends[k]
        /\ c >= (IF k = 1 THEN 0 ELSE ends[k - 1])}

\* a projection row that selects the 0-based column c with weight 1
ProjectionRow(nf, c) == [j \in 1..nf |-> IF j = c + 1 THEN 1 ELSE 0]

\* every matrix sample_projection_matrix may return: max_features rows over
\* n_features columns, each row selecting one column of some feature set
ProjectionMatrices(s) ==
    LET picks == UNION {FeatureSetColumns(s.feature_set_ends, k) :
                            k \in 1..s.n_feature_sets}
    IN  [1..s.max_features -> {ProjectionRow(s.n_features, c) : c \in picks}]

----------------------------------------------------------------------------
(* the script, one action per step *)

Init ==
    /\ pc = "start"
    /\ X = <<>>
    /\ y = <<>>
    /\ sample_weight = <<>>
    /\ splitter = None
    /\ calls = <<>>
    /\ projection_matrix = <<>>
    /\ cmap = <<>>
    /\ vlines = <<>>
    /\ loop_i = 0
    /\ axes = None
    /\ colorbar = None
    /\ executed = <<>>

Step(name) == executed' = Append(executed, name)

\* lines 33-52: the hyperparameters and the dummy data
Build ==
    /\ pc = "start"
    /\ Step("build")
    /\ IF CanReshapeRows(XFlat, n_samples)
       THEN /\ X' = ReshapeRows(XFlat, n_samples)
            /\ y' = ReshapeColumn(YFlat)
            /\ sample_weight' = Ones(n_samples)
            /\ pc' = "built"
       ELSE /\ pc' = "error"
            /\ UNCHANGED <<X, y, sample_weight>>
    /\ UNCHANGED <<splitter, calls, projection_matrix, cmap, vlines, loop_i,
                   axes, colorbar>>

\* lines 63-73: the constructor call, with the script's argument order
NewSplitterSwapped ==
    MultiViewSplitterTester("Gini", min_samples_leaf, max_features,
                            min_weight_leaf, random_state_seed, monotonic_cst,
                            feature_combinations, feature_set_ends,
                            n_feature_sets)
NewSplitter ==
    MultiViewSplitterTester("Gini", max_features, min_samples_leaf,
                            min_weight_leaf, random_state_seed, monotonic_cst,
                            feature_combinations, feature_set_ends,
                            n_feature_sets)

Construct ==
    /\ pc = "built"
    /\ Step("construct")
    /\ splitter' = NewSplitter
    /\ pc' = "constructed"
    /\ UNCHANGED <<X, y, sample_weight, calls, projection_matrix, cmap,
                   vlines, loop_i, axes, colorbar>>

\* line 74 left out: the script goes on without initializing the splitter
InitTestSkipped ==
    /\ pc = "constructed"
    /\ Step("init")
    /\ pc' = "initialized"
    /\ UNCHANGED <<X, y, sample_weight, splitter, calls, projection_matrix,
                   cmap, vlines, loop_i, axes, colorbar>>

\* line 74: splitter.init_test(X, y, sample_weight, missing_value_feature_mask)
InitTest ==
    /\ pc = "constructed"
    /\ Step("init")
    /\ calls' = Append(calls, "init_test")
    /\ splitter' = init_test(splitter, X, y, sample_weight,
                             missing_value_feature_mask)
    /\ pc' = "initialized"
    /\ UNCHANGED <<X, y, sample_weight, projection_matrix, cmap, vlines,
                   loop_i, axes, colorbar>>

\* line 85: projection_matrix = splitter.sample_projection_matrix_py()
Sample ==
    /\ pc = "initialized"
    /\ Step("sample")
    /\ calls' = Append(calls, "sample_projection_matrix_py")
    /\ IF splitter.initialized
       THEN /\ projection_matrix' \in ProjectionMatrices(splitter)
            /\ pc' = "sampled"
       ELSE /\ pc' = "error"
            /\ UNCHANGED projection_matrix
    /\ UNCHANGED <<X, y, sample_weight, splitter, cmap, vlines, loop_i, axes,
                   colorbar>>

\* line 88: ListedColormap(["white", "green"][:n_feature_sets])
colormap_colors == SliceTo(<<"white", "green">>, n_feature_sets)

\* lines 88-95: the colour map and ax.imshow; the aspect ratio divides by
\* max_features
Imshow ==
    /\ pc = "sampled"
    /\ Step("imshow")
    /\ IF max_features # 0
       THEN /\ cmap' = colormap_colors
            /\ pc' = "imshown"
       ELSE /\ pc' = "error"
            /\ UNCHANGED cmap
    /\ UNCHANGED <<X, y, sample_weight, splitter, calls, projection_matrix,
                   vlines, loop_i, axes, colorbar>>

\* ax.axvline(x - 0.5, ...), the position in half units
axvline(x, label) == [x2 |-> 2 * x - 1, label |-> label]

\* line 96: the first boundary, with the legend label
FirstVline ==
    /\ pc = "imshown"
    /\ Step("axvline")
    /\ vlines' = Append(vlines, axvline(feature_set_ends[1], "Feature Sets"))
    /\ loop_i' = 1
    /\ pc' = "loop"
    /\ UNCHANGED <<X, y, sample_weight, splitter, calls, projection_matrix,
                   cmap, axes, colorbar>>

\* line 97: what the for loop iterates over, feature_set_ends[1:]
LoopRangeAll == feature_set_ends
LoopRange == SliceFrom1(feature_set_ends)

\* lines 97-98: one iteration of the loop
LoopVline ==
    /\ pc = "loop"
    /\ loop_i <= Len(LoopRange)
    /\ Step("axvline")
    /\ vlines' = Append(vlines, axvline(LoopRange[loop_i], None))
    /\ loop_i' = loop_i + 1
    /\ UNCHANGED <<pc, X, y, sample_weight, splitter, calls,
                   projection_matrix, cmap, axes, colorbar>>

\* matplotlib's set_xticklabels / set_yticklabels after set_ticks: the number
\* of labels must be the number of ticks
LabelsFit(ticks, labels) == Len(ticks) = Len(labels)

\* lines 100-105, once the loop is exhausted: title, ticks, tick labels and
\* the legend (one entry per labelled line)
Ticks ==
    /\ pc = "loop"
    /\ loop_i > Len(LoopRange)
    /\ Step("ticks")
    /\ LET xticks == Arange(Last(feature_set_ends))
           yticks == Arange(max_features)
           xlabels == [i \in 1..Last(feature_set_ends) |-> (i - 1) + 1]
           ylabels == [i \in 1..max_features |-> (i - 1) + 1]
       IN  IF LabelsFit(xticks, xlabels) /\ LabelsFit(yticks, ylabels)
           THEN /\ axes' = [xticks |-> xticks, yticks |-> yticks,
                            xticklabels |-> xlabels, yticklabels |-> ylabels,
                            legend |-> SelectSeq([i \in 1..Len(vlines) |->
                                                     vlines[i].label],
                                                 LAMBDA l : l # None)]
                /\ pc' = "ticked"
           ELSE /\ pc' = "error"
                /\ UNCHANGED axes
    /\ UNCHANGED <<X, y, sample_weight, splitter, calls, projection_matrix,
                   cmap, vlines, loop_i, colorbar>>

\* lines 108-114: the colour bar, ticks at 0.25 and 0.75 (in hundredths),
\* relabelled "0" and "1"
Colorbar ==
    /\ pc = "ticked"
    /\ Step("colorbar")
    /\ LET ticks == <<25, 75>>
           labels == <<"0", "1">>
       IN  IF LabelsFit(ticks, labels)
           THEN /\ colorbar' = [ticks |-> ticks, yticklabels |-> labels]
                /\ pc' = "colorbar"
           ELSE /\ pc' = "error"
                /\ UNCHANGED colorbar
    /\ UNCHANGED <<X, y, sample_weight, splitter, calls, projection_matrix,
                   cmap, vlines, loop_i, axes>>

\* line 116: plt.show(), the last statement
Show ==
    /\ pc = "colorbar"
    /\ Step("show")
    /\ pc' = "done"
    /\ UNCHANGED <<X, y, sample_weight, splitter, calls, projection_matrix,
                   cmap, vlines, loop_i, axes, colorbar>>

Next ==
    \/ Build
    \/ Construct
    \/ InitTest
    \/ Sample
    \/ Imshow
    \/ FirstVline
    \/ LoopVline
    \/ Ticks
    \/ Colorbar
    \/ Show

Spec == Init /\ [][Next]_vars

\* a synchronous single-threaded script: the interpreter runs the next
\* statement whenever there is one
FairSpec == Spec /\ WF_vars(Next)

----------------------------------------------------------------------------
(* properties *)

IsPrefix(s, t) == Len(s) <= Len(t) /\ SubSeq(t, 1, Len(s)) = s

Count(s, v) == Cardinality({i \in DOMAIN s : s[i] = v})

Sampled == projection_matrix # <<>>

\* C1: the matrix returned by sample_projection_matrix has shape
\* (max_features, total_features): 5 rows of 9 columns each, the column count
\* being the last feature-set end.
C1_Shape ==
    Sampled =>
        /\ Shape(projection_matrix) = <<5, 9>>
        /\ Len(projection_matrix) = max_features
        /\ \A r \in DOMAIN projection_matrix :
              Len(projection_matrix[r]) = Last(feature_set_ends)

C1_Witness ==
    /\ pc = "sampled"
    /\ Sampled
    /\ Len(projection_matrix) = 5
    /\ Len(projection_matrix[5]) = 9

C3_InitBeforeSample ==
    /\ Count(calls, "init_test") <= 1
    /\ \A i \in DOMAIN calls :
          calls[i] = "sample_projection_matrix_py" =>
              /\ splitter.initialized
              /\ Count(SubSeq(calls, 1, i - 1), "init_test") = 1
    /\ Sampled => Count(calls, "sample_projection_matrix_py") > 0

C3_Witness ==
    /\ calls = <<"init_test", "sample_projection_matrix_py">>
    /\ Sampled
    /\ splitter.initialized

\* C5: the ends 3, 5, 9 are strictly increasing and describe three
\* contiguous feature sets of 3, 2 and 4 columns; n_feature_sets is the number
\* of ends; every column of X lies in exactly one feature set and the last
\* end is the number of columns of X.
C5_FeatureSets ==
    pc # "start" =>
        /\ \A k \in 1..(Len(feature_set_ends) - 1) :
              feature_set_ends[k] < feature_set_ends[k + 1]
        /\ n_feature_sets = 3
        /\ n_feature_sets = Len(feature_set_ends)
        /\ [k \in 1..n_feature_sets |->
               Cardinality(FeatureSetColumns(feature_set_ends, k))]
           = <<3, 2, 4>>
        /\ \A c \in 0..(Shape(X)[2] - 1) :
              Cardinality({k \in 1..n_feature_sets :
                              c \in FeatureSetColumns(feature_set_ends, k)}) = 1
        /\ Shape(X)[2] = Last(feature_set_ends)
        /\ Shape(X)[2] = 9

C5_Witness ==
    /\ pc = "built"
    /\ Shape(X) = <<5, 9>>
    /\ FeatureSetColumns(feature_set_ends, 2) = {3, 4}

\* the steps of one run, in the order of the script
ExpectedRun ==
    <<"build", "construct", "init", "sample", "imshow", "axvline", "axvline",
      "axvline", "ticks", "colorbar", "show">>

\* C6: the steps of the script execute once each, in the order of the script
\* (the loop body once per remaining end), and the run reaches its end.
C6_StraightLine ==
    /\ [](IsPrefix(executed, ExpectedRun))
    /\ <>(pc = "done" /\ executed = ExpectedRun)

C6_Witness ==
    /\ pc = "done"
    /\ executed = ExpectedRun

\* C7: X has 5 rows and 9 = feature_set_ends[-1] columns, y has shape (5, 1)
\* and sample_weight has length 5.
C7_DatasetShapes ==
    pc # "start" =>
        /\ Shape(X) = <<5, 9>>
        /\ \A r \in DOMAIN X : Len(X[r]) = Last(feature_set_ends)
        /\ Shape(y) = <<5, 1>>
        /\ \A r \in DOMAIN y : Len(y[r]) = 1
        /\ Len(sample_weight) = 5
        /\ Len(X) = Len(y)
        /\ Len(X) = Len(sample_weight)

C7_Witness ==
    /\ pc = "built"
    /\ X[1] = <<0, 0, 0, 0, 0, 1, 1, 1, 1>>
    /\ X[5] = <<7, 7, 7, 7, 8, 8, 8, 8, 8>>
    /\ y = <<<<0>>, <<0>>, <<0>>, <<1>>, <<1>>>>
    /\ sample_weight = <<1, 1, 1, 1, 1>>

C9_BoundaryLines ==
    /\ \A i, j \in DOMAIN vlines : i # j => vlines[i].x2 # vlines[j].x2
    /\ \A i \in DOMAIN vlines :
          vlines[i].label = (IF i = 1 THEN "Feature Sets" ELSE None)
    /\ pc \in {"ticked", "colorbar", "done"} =>
          /\ [i \in DOMAIN vlines |-> vlines[i].x2] = <<5, 9, 17>>
          /\ Len(vlines) = Len(feature_set_ends)
          /\ \A i \in DOMAIN vlines :
                vlines[i].x2 = 2 * feature_set_ends[i] - 1

C9_Witness ==
    /\ pc = "ticked"
    /\ Len(vlines) = 3
    /\ axes.legend = <<"Feature Sets">>

====
